---- MODULE Spec2Model ----
(***************************************************************************)
(* Webhook-to-Discord relay (render-examples/webhook-discord-bot).         *)
(*                                                                         *)
(* Two variants of the same program are in the sources:                    *)
(*   "permissive"  src/app.ts     configuration defaulted to '', the       *)
(*                                description is read from event.details   *)
(*   "strict"      src/README.md  (lines 31-228) exits at load when a      *)
(*                                configuration value is missing, the      *)
(*                                description is read from                 *)
(*                                event.details.reason                     *)
(*                                                                         *)
(* JavaScript runs one callback at a time, so one action is one            *)
(* synchronous run: the route handler up to the first await of             *)
(* handleWebhook, and then each continuation that runs when an awaited     *)
(* external call settles.  External calls (the verifier library, the       *)
(* vendor API, the Discord client) are the environment: their outcomes     *)
(* are inputs.                                                             *)
(***************************************************************************)
EXTENDS Integers, Sequences, FiniteSets, TLC

VARIABLES
    variant,    \* which program is running: "strict" or "permissive"
    env,        \* which environment variables are set (non-empty)
    proc,       \* "boot", "listening", "closing" (alive, server.close() called,
                \* connections still open), "closed" (alive, the HTTP server closed),
                \* "exited" (at load) or "crashed"
    req,        \* req[r]: the request as received, NoReq before it arrives
    pc,         \* pc[r]: where the request's handleWebhook call stands
    trace,      \* trace[r]: the observable steps taken for r, in order
    svc,        \* svc[r]: the service returned by fetchServiceInfo
    evt,        \* evt[r]: the event returned by fetchEventInfo
    chan,       \* chan[r]: what client.channels.fetch settled to
    msg,        \* msg[r]: the message handed to channel.send
    sendSt,     \* sendSt[r]: the promise of channel.send
    dIn,        \* input of the description check (SpecDesc only)
    dOut        \* result of the description check (SpecDesc only)

vars == <<variant, env, proc, req, pc, trace, svc, evt, chan, msg, sendSt, dIn, dOut>>

\* Number of webhook deliveries in one run of the model.
MaxReq == 2

Req == 1..MaxReq

Range(s) == {s[i] : i \in 1..Len(s)}

Count(s, e) == Cardinality({i \in 1..Len(s) : s[i] = e})

(***************************************************************************)
(* JavaScript values, as far as the program looks at them.                 *)
(***************************************************************************)
Undef == [t |-> "undef"]
Num(n) == [t |-> "num", n |-> n]
Str(s) == [t |-> "str", s |-> s]
Bool(b) == [t |-> "bool", b |-> b]

\* ToBoolean: undefined, 0, "" and false are falsy.
Truthy(v) ==
    CASE v.t = "undef" -> FALSE
      [] v.t = "num" -> v.n # 0
      [] v.t = "str" -> v.s # ""
      [] v.t = "bool" -> v.b
      [] OTHER -> TRUE

Digit(d) == CASE d = 0 -> "0" [] d = 1 -> "1" [] d = 2 -> "2" [] d = 3 -> "3" [] d = 4 -> "4"
              [] d = 5 -> "5" [] d = 6 -> "6" [] d = 7 -> "7" [] d = 8 -> "8" [] d = 9 -> "9"

RECURSIVE NatToString(_)
NatToString(n) == IF n < 10 THEN Digit(n) ELSE NatToString(n \div 10) \o Digit(n % 10)

\* ToString of JavaScript, as string concatenation and template literals apply it.
JsToString(v) ==
    CASE v.t = "undef" -> "undefined"
      [] v.t = "num" -> IF v.n < 0 THEN "-" \o NatToString(-v.n) ELSE NatToString(v.n)
      [] v.t = "str" -> v.s
      [] v.t = "bool" -> IF v.b THEN "true" ELSE "false"
      [] OTHER -> "[object Object]"

(***************************************************************************)
(* Configuration read at module load.                                      *)
(***************************************************************************)
EnvNames == {"RENDER_WEBHOOK_SECRET", "RENDER_API_KEY", "DISCORD_TOKEN", "DISCORD_CHANNEL_ID"}

\* The environments of the model: everything set, the webhook secret missing, the
\* channel id missing, nothing set.
Envs ==
    {EnvNames} \cup
    {EnvNames \ {n} : n \in {"RENDER_WEBHOOK_SECRET", "DISCORD_CHANNEL_ID"}} \cup {{}}

Variants == {"strict", "permissive"}

\* const renderWebhookSecret = process.env.RENDER_WEBHOOK_SECRET || ''
renderWebhookSecret(e) == IF "RENDER_WEBHOOK_SECRET" \in e THEN "whsec" ELSE ""

\* (variant of Load that checks the webhook secret only)
LoadSecretOnly(v, e) ==
    IF v = "strict" /\ "RENDER_WEBHOOK_SECRET" \notin e THEN "exited" ELSE "listening"

\* Module load up to app.listen: "exited" when a process.exit(1) is reached first.
\* Only the strict variant checks the four values.
Load(v, e) ==
    IF v = "strict" /\ e # EnvNames THEN "exited" ELSE "listening"

(***************************************************************************)
(* Requests.                                                               *)
(***************************************************************************)
NoReq == [k |-> "none"]
None == [k |-> "none"]

HeaderNames == {"webhook-id", "webhook-timestamp", "webhook-signature"}

\* What a decoded body can be.  type and hasData say what payload.type and
\* payload.data are when the body is a JSON object.
Payloads ==
    {[json |-> "null"]} \cup
    {[json |-> "object", type |-> t, hasData |-> d] :
        t \in {"server_failed", "deploy_ended"}, d \in BOOLEAN}

\* body: "raw" when express.raw matched the content type and req.body is a Buffer,
\*       "object" when it did not and req.body is {}.
\* text: "json" when the bytes parse as JSON (to payload), "garbage" when they do not.
Bodies ==
    {[raw |-> FALSE]} \cup {[raw |-> TRUE, text |-> "garbage"]} \cup
    {[raw |-> TRUE, text |-> "json", payload |-> p] : p \in Payloads}

\* present: the headers the request carries.
\* authentic: the signature header matches the MAC of id, timestamp and body under
\*            the configured secret (it cannot when a header is missing).
\* fresh: on arrival the webhook-timestamp header is within the verifier's tolerance
\*        of the clock.  It is the one attribute that the bytes of the request do
\*        not fix: the same bytes are fresh now and stale later.
Request(h, a, f, b) ==
    [k |-> "req", present |-> h, authentic |-> a, fresh |-> f, body |-> b]

ServerFailed == [json |-> "object", type |-> "server_failed", hasData |-> TRUE]

\* The bodies of the requests that do not pass verification.
RejectedBodies ==
    {[raw |-> FALSE], [raw |-> TRUE, text |-> "garbage"],
     [raw |-> TRUE, text |-> "json", payload |-> ServerFailed]}

\* Requests with all three headers: authentic and fresh, authentic and stale, or
\* forged.  Requests with one header missing.
Requests ==
    {Request(HeaderNames, TRUE, TRUE, b) : b \in Bodies}
    \cup
    {Request(HeaderNames, af[1], af[2], b) :
        af \in {<<TRUE, FALSE>>, <<FALSE, TRUE>>}, b \in RejectedBodies}
    \cup
    {Request(HeaderNames \ {n}, FALSE, "webhook-timestamp" # n, b) :
        n \in HeaderNames, b \in RejectedBodies}

\* req.header(name) || ""
header(q, name) == IF name \in q.present THEN "set" ELSE ""

\* The three header values validateWebhook hands to the verifier.
headers(q) == [n \in HeaderNames |-> header(q, n)]

(***************************************************************************)
(* The verifier is a library the program calls; its code is not part of    *)
(* the program's source.  It is modelled as far as the program depends on  *)
(* it: "ok", or the class of the error thrown.                             *)
(*   new Webhook(secret)   throws an Error on an empty secret.             *)
(*   verify(payload, hs)   throws a WebhookVerificationError on a missing  *)
(*       (empty) header, on a timestamp outside the tolerance and on a     *)
(*       signature that does not match, and an Error on a payload that is  *)
(*       neither string nor Buffer (it checks in this order).  When the    *)
(*       signature matches it returns JSON.parse of the payload, which     *)
(*       throws a SyntaxError on bytes that are not JSON.                  *)
(* Whether the signature matches is an attribute of the request            *)
(* (authentic): the MAC itself is not modelled.                            *)
(***************************************************************************)
newWebhook(secret) == IF secret = "" THEN "Error" ELSE "ok"

verify(q, hs) ==
    IF \E n \in HeaderNames : hs[n] = "" THEN "WebhookVerificationError"
    ELSE IF ~q.fresh THEN "WebhookVerificationError"
    ELSE IF ~q.body.raw THEN "Error"
    ELSE IF ~q.authentic THEN "WebhookVerificationError"
    ELSE IF q.body.text # "json" THEN "SyntaxError"
    ELSE "ok"

\* (variant of validateWebhook that throws on a header that is not there, before
\* it calls the verifier)
validateWebhookNoDefault(secret, q) ==
    IF q.present # HeaderNames THEN "Error"
    ELSE IF newWebhook(secret) # "ok" THEN newWebhook(secret)
    ELSE verify(q, headers(q))

\* validateWebhook: the headers, each defaulted to "", new Webhook(secret), then
\* wh.verify(req.body, headers).  "ok", or the class of the error thrown.
validateWebhook(secret, q) ==
    IF newWebhook(secret) # "ok" THEN newWebhook(secret)
    ELSE verify(q, headers(q))

\* (variant of errorMiddleware that answers every error with 400)
errorMiddlewareAlways400(err) == <<"log.error", "res400">>

\* The error middleware: console.error, then 400 or 500.

errorMiddleware(err) ==
    IF err = "WebhookVerificationError" THEN <<"log.error", "res400">>
    ELSE <<"log.error", "res500">>

\* (variant of handleWebhookStart without the switch on payload.type)
handleWebhookStartNoSwitch(p) ==
    IF p.json = "null" THEN [t |-> <<"log.error">>, pc |-> "returned"]
    ELSE IF p.hasData THEN [t |-> <<"fetchService">>, pc |-> "awaitService"]
    ELSE [t |-> <<"log.error">>, pc |-> "returned"]

(***************************************************************************)
(* handleWebhook up to its first await (or its return).  t is what it does *)
(* in this run, pc where it stands afterwards.                             *)
(*   payload null           payload.type throws TypeError, caught, logged  *)
(*   server_failed          fetchServiceInfo reads payload.data.serviceId  *)
(*                          (TypeError without data) and issues the fetch  *)
(*   any other type         console.log of payload.data.serviceId          *)
(*                          (TypeError without data, caught, logged)       *)
(***************************************************************************)
handleWebhookStart(p) ==
    IF p.json = "null" THEN [t |-> <<"log.error">>, pc |-> "returned"]
    ELSE IF p.type = "server_failed" THEN
        IF p.hasData THEN [t |-> <<"fetchService">>, pc |-> "awaitService"]
        ELSE [t |-> <<"log.error">>, pc |-> "returned"]
    ELSE IF p.hasData THEN [t |-> <<"log.info">>, pc |-> "returned"]
    ELSE [t |-> <<"log.error">>, pc |-> "returned"]

\* (variant of accepted that calls handleWebhook before it sends the 200)
acceptedHandleFirst(q) ==
    IF q.body.text # "json" THEN
        [t |-> <<"parse">> \o errorMiddleware("SyntaxError"), pc |-> "rejected"]
    ELSE LET h == handleWebhookStart(q.body.payload)
         IN [t |-> <<"parse", "handleWebhook">> \o h.t \o <<"res200">>, pc |-> h.pc]

\* The route handler once validateWebhook has returned: JSON.parse (a SyntaxError
\* goes to the error middleware), the 200, then handleWebhook.  (validateWebhook
\* has parsed the same bytes already, so after it this parse does not throw.)
accepted(q) ==
    IF q.body.text # "json" THEN
        [t |-> <<"parse">> \o errorMiddleware("SyntaxError"), pc |-> "rejected"]
    ELSE LET h == handleWebhookStart(q.body.payload)
         IN [t |-> <<"parse", "res200", "handleWebhook">> \o h.t, pc |-> h.pc]

\* (variant of postWebhook whose catch calls next(error) without returning)
postWebhookNoReturn(secret, q) ==
    LET v == validateWebhook(secret, q)
        e == IF v # "ok" THEN errorMiddleware(v) ELSE <<>>
    IN IF ~q.body.raw THEN [t |-> <<"validate">> \o e, pc |-> "rejected"]
       ELSE LET a == accepted(q) IN [t |-> <<"validate">> \o e \o a.t, pc |-> a.pc]

\* app.post("/webhook"): validateWebhook, next(error) when it throws.
postWebhook(secret, q) ==
    LET v == validateWebhook(secret, q)
    IN IF v # "ok" THEN [t |-> <<"validate">> \o errorMiddleware(v), pc |-> "rejected"]
       ELSE LET a == accepted(q) IN [t |-> <<"validate">> \o a.t, pc |-> a.pc]

(***************************************************************************)
(* Vendor API results.                                                     *)
(***************************************************************************)
Services ==
    {[name |-> "api", dashboardUrl |-> "https://x"],
     [name |-> "web", dashboardUrl |-> "https://y"]}

\* An object carrying the failure-detail fields; a missing field is Undef.
Fields(nz, oom, ts, tr, uh) ==
    [t |-> "obj", nonZeroExit |-> nz, oomKilled |-> oom, timedOutSeconds |-> ts,
     timedOutReason |-> tr, unhealthy |-> uh]

NoFields == Fields(Undef, Undef, Undef, Undef, Undef)

\* event.details: Undef, or an object with the failure fields at its top level
\* (flat) and a reason property (Undef or an object with the failure fields).
Details(flat, reason) == [t |-> "obj", flat |-> flat, reason |-> reason]

Events ==
    {[details |-> Details(Fields(Undef, Bool(TRUE), Undef, Undef, Undef), Undef)],
     [details |-> Details(NoFields, Fields(Undef, Bool(TRUE), Undef, Undef, Undef))],
     [details |-> Undef]}

Throw == [t |-> "TypeError"]

\* The second argument of sendServerFailedMessage as handleWebhook evaluates it:
\* event.details (permissive) or event.details.reason (strict, a TypeError when
\* details is undefined).
failureArg(v, e) ==
    IF v = "strict" THEN (IF e.details.t = "undef" THEN Throw ELSE e.details.reason)
    ELSE (IF e.details.t = "undef" THEN Undef ELSE e.details.flat)

\* (variant of description that tests oomKilled before nonZeroExit)
descriptionOomFirst(fr) ==
    IF fr.t = "undef" THEN Throw
    ELSE IF Truthy(fr.oomKilled) THEN Str("Out of Memory")
    ELSE IF Truthy(fr.nonZeroExit) THEN Str("Exited with status " \o JsToString(fr.nonZeroExit))
    ELSE IF Truthy(fr.timedOutSeconds) THEN Str("Timed out " \o JsToString(fr.timedOutReason))
    ELSE IF Truthy(fr.unhealthy) THEN fr.unhealthy
    ELSE Str("Failed for unknown reason")

\* The description, or Throw when a field is read from undefined.
description(fr) ==
    IF fr.t = "undef" THEN Throw
    ELSE IF Truthy(fr.nonZeroExit) THEN Str("Exited with status " \o JsToString(fr.nonZeroExit))
    ELSE IF Truthy(fr.oomKilled) THEN Str("Out of Memory")
    ELSE IF Truthy(fr.timedOutSeconds) THEN Str("Timed out " \o JsToString(fr.timedOutReason))
    ELSE IF Truthy(fr.unhealthy) THEN fr.unhealthy
    ELSE Str("Failed for unknown reason")

\* What is handed to channel.send: the embed and the "View Logs" button.
message(s, d) ==
    [title |-> s.name \o " Failed", description |-> d, url |-> s.dashboardUrl,
     logs |-> s.dashboardUrl \o "/logs"]

(***************************************************************************)
(* State machine.                                                          *)
(***************************************************************************)
Init ==
    /\ variant \in Variants
    /\ env \in Envs
    /\ proc = "boot"
    /\ req = [r \in Req |-> NoReq]
    /\ pc = [r \in Req |-> "idle"]
    /\ trace = [r \in Req |-> <<>>]
    /\ svc = [r \in Req |-> None]
    /\ evt = [r \in Req |-> None]
    /\ chan = [r \in Req |-> "none"]
    /\ msg = [r \in Req |-> None]
    /\ sendSt = [r \in Req |-> "none"]
    /\ dIn = None
    /\ dOut = None

\* Module load: the configuration checks, then app.listen.
Startup ==
    /\ proc = "boot"
    /\ proc' = Load(variant, env)
    /\ UNCHANGED <<variant, env, req, pc, trace, svc, evt, chan, msg, sendSt, dIn, dOut>>

\* The process is alive: its pending promises settle and their callbacks run,
\* whether or not the HTTP server still accepts connections.
Running == {"listening", "closing", "closed"}

\* A request can reach the route handler: the server listens, or it has stopped
\* listening and a connection it accepted before is still open.
Serving == {"listening", "closing"}

\* The connections a server can hold open when server.close() is called: ones on
\* which no response has been completed yet (nothing sent, or a request under
\* way), and ones kept alive, idle, after a response.
ConnectionKinds == {"unanswered", "keptAlive"}

\* The SIGTERM handler: console.debug, then server.close().  The server accepts no
\* new connection from then on.  conns are the kinds of connection open at that
\* time; closesIdle says whether server.close() of the runtime ends the idle
\* kept-alive ones (it does from Node 19 on).  The connections that are left go on
\* delivering requests; when none is left the server is closed.  The process is
\* not ended and what is pending goes on.
onSigterm(p, conns, closesIdle) ==
    IF p = "closed" THEN p
    ELSE IF (IF closesIdle THEN conns \ {"keptAlive"} ELSE conns) = {} THEN "closed"
    ELSE "closing"

\* The cases of the signal: no connection open; an unanswered one open; a
\* kept-alive one open, under a runtime that ends it and under one that does not.
SigtermInputs ==
    {<<{}, TRUE>>, <<{"unanswered"}, TRUE>>, <<{"keptAlive"}, TRUE>>, <<{"keptAlive"}, FALSE>>}

\* SIGTERM is delivered to the process.  A kept-alive connection is one that has
\* carried a request; a server that is closing holds at least one connection.
\* (On a server that is closed the handler changes nothing.)
Sigterm(conns, closesIdle) ==
    /\ proc \in Serving
    /\ "keptAlive" \in conns => \E r \in Req : req[r] # NoReq
    /\ proc = "closing" => conns # {}
    /\ proc' = onSigterm(proc, conns, closesIdle)
    /\ UNCHANGED <<variant, env, req, pc, trace, svc, evt, chan, msg, sendSt, dIn, dOut>>

\* The last connection of a closing server ends (the client closes it, or the
\* keep-alive timeout does): the callback of server.close() runs, console.debug.
ServerClosed ==
    /\ proc = "closing"
    /\ proc' = "closed"
    /\ UNCHANGED <<variant, env, req, pc, trace, svc, evt, chan, msg, sendSt, dIn, dOut>>

\* (variant of PostWebhook that acknowledges a webhook it has already accepted
\* without handling it again)
PostWebhookDedup(r, q) ==
    /\ proc \in Serving
    /\ pc[r] = "idle"
    /\ IF r = 1 THEN TRUE ELSE pc[r - 1] # "idle"
    /\ LET h == postWebhook(renderWebhookSecret(env), q)
           seen == \E r0 \in Req : req[r0] = q /\ "res200" \in Range(trace[r0])
       IN /\ req' = [req EXCEPT ![r] = q]
          /\ trace' = [trace EXCEPT ![r] =
                          IF seen THEN <<"validate", "parse", "res200">> ELSE h.t]
          /\ pc' = [pc EXCEPT ![r] = IF seen THEN "returned" ELSE h.pc]
    /\ UNCHANGED <<variant, env, proc, svc, evt, chan, msg, sendSt, dIn, dOut>>

\* A POST /webhook arrives and the route handler runs to its end.
PostWebhook(r, q) ==
    /\ proc \in Serving
    /\ pc[r] = "idle"
    /\ IF r = 1 THEN TRUE ELSE pc[r - 1] # "idle"   \* deliveries are numbered in order of arrival
    /\ LET h == postWebhook(renderWebhookSecret(env), q)
       IN /\ req' = [req EXCEPT ![r] = q]
          /\ trace' = [trace EXCEPT ![r] = h.t]
          /\ pc' = [pc EXCEPT ![r] = h.pc]
    /\ UNCHANGED <<variant, env, proc, svc, evt, chan, msg, sendSt, dIn, dOut>>

\* What a fetch settles to: a response with its status (and, when it is read, its
\* JSON body), or a rejected promise.
Response(status, body) == [k |-> "response", status |-> status, body |-> body]
Rejected == [k |-> "rejected"]

\* The statuses of the responses that are not 2xx.
FailStatuses == {404}

ServiceResults ==
    {Response(200, s) : s \in Services} \cup
    {Response(n, None) : n \in FailStatuses} \cup {Rejected}

EventResults ==
    {Response(200, e) : e \in Events} \cup
    {Response(n, None) : n \in FailStatuses} \cup {Rejected}

\* res.ok
ok(o) == o.k = "response" /\ o.status >= 200 /\ o.status <= 299

\* (variant of afterService that does not look at res.ok)
afterServiceNoOkCheck(o) ==
    IF o.k = "response" THEN [t |-> <<"fetchEvent">>, pc |-> "awaitEvent"]
    ELSE [t |-> <<"log.error">>, pc |-> "returned"]

\* (variant of afterService that fetches the service again when the fetch failed)
afterServiceRetry(o) ==
    IF ok(o) THEN [t |-> <<"fetchEvent">>, pc |-> "awaitEvent"]
    ELSE [t |-> <<"log.error", "fetchService">>, pc |-> "awaitService"]

\* (variant of afterService that answers the webhook again when the fetch failed)
afterServiceRespond500(o) ==
    IF ok(o) THEN [t |-> <<"fetchEvent">>, pc |-> "awaitEvent"]
    ELSE [t |-> <<"log.error", "res500">>, pc |-> "returned"]

\* handleWebhook once fetchServiceInfo has settled: on success fetchEventInfo issues
\* its fetch; an error is caught and logged.
afterService(o) ==
    IF ok(o) THEN [t |-> <<"fetchEvent">>, pc |-> "awaitEvent"]
    ELSE [t |-> <<"log.error">>, pc |-> "returned"]

ServiceFetchReturns(r, o) ==
    /\ proc \in Running
    /\ pc[r] = "awaitService"
    /\ LET h == afterService(o)
       IN /\ trace' = [trace EXCEPT ![r] = @ \o h.t]
          /\ pc' = [pc EXCEPT ![r] = h.pc]
    /\ svc' = [svc EXCEPT ![r] = o]
    /\ UNCHANGED <<variant, env, proc, req, evt, chan, msg, sendSt, dIn, dOut>>

\* (variant of afterEvent that resolves the channel before it looks at res.ok)
afterEventNoOkCheck(v, o) ==
    IF ~ok(o) THEN [t |-> <<"channelFetch", "log.error">>, pc |-> "returned"]
    ELSE IF failureArg(v, o.body) = Throw THEN
        [t |-> <<"log.info", "log.error">>, pc |-> "returned"]
    ELSE [t |-> <<"log.info", "channelFetch">>, pc |-> "awaitChannel"]

\* handleWebhook once fetchEventInfo has settled: on success the console.log, the
\* argument of sendServerFailedMessage, then client.channels.fetch.
afterEvent(v, o) ==
    IF ~ok(o) THEN [t |-> <<"log.error">>, pc |-> "returned"]
    ELSE IF failureArg(v, o.body) = Throw THEN
        [t |-> <<"log.info", "log.error">>, pc |-> "returned"]
    ELSE [t |-> <<"log.info", "channelFetch">>, pc |-> "awaitChannel"]

EventFetchReturns(r, o) ==
    /\ proc \in Running
    /\ pc[r] = "awaitEvent"
    /\ LET h == afterEvent(variant, o)
       IN /\ trace' = [trace EXCEPT ![r] = @ \o h.t]
          /\ pc' = [pc EXCEPT ![r] = h.pc]
    /\ evt' = [evt EXCEPT ![r] = o]
    /\ UNCHANGED <<variant, env, proc, req, svc, chan, msg, sendSt, dIn, dOut>>

\* Outcomes of client.channels.fetch: a sendable channel, a channel that is not
\* sendable, null, a rejected promise.
ChannelOutcomes == {"sendable", "notSendable", "null", "rejected"}

\* (variant of afterChannel without the isSendable check)
afterChannelNoSendableCheck(o, fr) ==
    IF o \in {"null", "rejected"} THEN [t |-> <<"log.error">>, send |-> FALSE]
    ELSE IF description(fr) = Throw THEN [t |-> <<"log.error">>, send |-> FALSE]
    ELSE [t |-> <<"send">>, send |-> TRUE]

\* sendServerFailedMessage once client.channels.fetch has settled.  send says
\* whether channel.send was called; it is not awaited, so sendServerFailedMessage
\* and handleWebhook return at once.
afterChannel(o, fr) ==
    IF o \in {"null", "rejected"} THEN [t |-> <<"log.error">>, send |-> FALSE]
    ELSE IF o # "sendable" THEN [t |-> <<"log.error">>, send |-> FALSE]
    ELSE IF description(fr) = Throw THEN [t |-> <<"log.error">>, send |-> FALSE]
    ELSE [t |-> <<"send">>, send |-> TRUE]

ChannelFetchReturns(r, o) ==
    /\ proc \in Running
    /\ pc[r] = "awaitChannel"
    /\ LET fr == failureArg(variant, evt[r].body)
           h == afterChannel(o, fr)
       IN /\ trace' = [trace EXCEPT ![r] = @ \o h.t]
          /\ msg' = [msg EXCEPT ![r] =
                        IF h.send THEN message(svc[r].body, description(fr)) ELSE @]
          /\ sendSt' = [sendSt EXCEPT ![r] = IF h.send THEN "pending" ELSE @]
    /\ chan' = [chan EXCEPT ![r] = o]
    /\ pc' = [pc EXCEPT ![r] = "returned"]
    /\ UNCHANGED <<variant, env, proc, req, svc, evt, dIn, dOut>>

\* The promise of channel.send settles.  Nothing awaits it and nothing handles its
\* rejection: a rejection is an unhandled rejection of the process.
sendSettled(fulfilled) ==
    IF fulfilled THEN [t |-> <<"delivered">>, st |-> "delivered"]
    ELSE [t |-> <<"unhandledRejection">>, st |-> "failed"]

\* What the runtime does on an unhandled rejection: the program installs no
\* handler for it, so the runtime's mode decides: "throw" (the default) ends the
\* process, "warn" prints a warning and goes on.
UnhandledRejectionModes == {"throw", "warn"}

onUnhandledRejection(mode, p) == IF mode = "throw" THEN "crashed" ELSE p

SendSettles(r, fulfilled, mode) ==
    /\ proc \in Running
    /\ sendSt[r] = "pending"
    /\ LET h == sendSettled(fulfilled)
       IN /\ trace' = [trace EXCEPT ![r] = @ \o h.t]
          /\ sendSt' = [sendSt EXCEPT ![r] = h.st]
    /\ proc' = IF fulfilled THEN proc ELSE onUnhandledRejection(mode, proc)
    /\ UNCHANGED <<variant, env, req, pc, svc, evt, chan, msg, dIn, dOut>>

Next ==
    \/ Startup
    \/ \E in \in SigtermInputs : Sigterm(in[1], in[2])
    \/ ServerClosed
    \/ \E r \in Req, q \in Requests : PostWebhook(r, q)
    \/ \E r \in Req, o \in ServiceResults : ServiceFetchReturns(r, o)
    \/ \E r \in Req, o \in EventResults : EventFetchReturns(r, o)
    \/ \E r \in Req, o \in ChannelOutcomes : ChannelFetchReturns(r, o)
    \/ \E r \in Req, f \in BOOLEAN, m \in UnhandledRejectionModes : SendSettles(r, f, m)

Spec == Init /\ [][Next]_vars

(***************************************************************************)
(* The description as a function of the failure-detail fields, on its own. *)
(***************************************************************************)
FieldInputs ==
    {Fields(nz, oom, ts, tr, uh) :
        nz \in {Undef, Num(0), Num(1), Num(137)},
        oom \in {Undef, Bool(FALSE), Bool(TRUE)},
        ts \in {Undef, Num(0), Num(30)},
        tr \in {Undef, Str("startup")},
        uh \in {Undef, Str(""), Str("probe failed")}}

InitDesc ==
    /\ variant \in Variants
    /\ env = EnvNames
    /\ proc = "listening"
    /\ req = [r \in Req |-> NoReq]
    /\ pc = [r \in Req |-> "idle"]
    /\ trace = [r \in Req |-> <<>>]
    /\ svc = [r \in Req |-> None]
    /\ evt = [r \in Req |-> None]
    /\ chan = [r \in Req |-> "none"]
    /\ msg = [r \in Req |-> None]
    /\ sendSt = [r \in Req |-> "none"]
    /\ dIn \in FieldInputs \cup {Undef}
    /\ dOut = None

Describe ==
    /\ dOut = None
    /\ dOut' = description(dIn)
    /\ UNCHANGED <<variant, env, proc, req, pc, trace, svc, evt, chan, msg, sendSt, dIn>>

NextDesc == Describe

SpecDesc == InitDesc /\ [][NextDesc]_vars

(***************************************************************************)
(* Vocabulary of the properties.                                           *)
(***************************************************************************)
VendorOps == {"fetchService", "fetchEvent"}
ChatOps == {"channelFetch", "send"}
OutboundOps == VendorOps \cup ChatOps
ResponseEvents == {"res200", "res400", "res500"}

IsResponse(e) == e \in ResponseEvents

\* The HTTP responses sent for r, in order.
Responses(r) == SelectSeq(trace[r], IsResponse)

Arrived(r) == req[r] # NoReq

\* What validateWebhook did for r.
Verdict(r) == validateWebhook(renderWebhookSecret(env), req[r])

\* The body of r is a Buffer holding JSON text.
Parses(r) == req[r].body.raw /\ req[r].body.text = "json"

Last(s) == s[Len(s)]

\* handleWebhook has returned and no promise of the chain is pending.
ChainDone(r) == pc[r] = "returned" /\ sendSt[r] # "pending"

Notified(r) == sendSt[r] = "delivered"

\* Nothing was handed to the chat service and the last thing done was a log line.
DroppedWithLog(r) ==
    /\ sendSt[r] = "none"
    /\ msg[r] = None
    /\ Last(trace[r]) \in {"log.error", "log.info"}

\* r took the server_failed branch of handleWebhook.
HandledBranch(r) ==
    /\ "handleWebhook" \in Range(trace[r])
    /\ req[r].body.payload.json = "object"
    /\ req[r].body.payload.type = "server_failed"

\* A fetch was answered with a status outside 200..299.
Non2xx(o) == o.k = "response" /\ ~(o.status \in 200..299)

NoRepeat(r) == \A e \in OutboundOps : Count(trace[r], e) <= 1

(***************************************************************************)
(* C1.  The 200 comes first: in the steps taken for a request, every       *)
(* vendor API call (service fetch, event fetch) and every chat operation   *)
(* (channel resolve, send) comes after the request's 200 response; no      *)
(* enrichment or notification step precedes it.                            *)
(***************************************************************************)
C1_AckBeforeWork ==
    \A r \in Req :
        \A i \in 1..Len(trace[r]) :
            trace[r][i] \in OutboundOps =>
                \E j \in 1..(i - 1) : trace[r][j] = "res200"

\* A verified, parseable server_failed request went all the way to the send.
C1_Witness ==
    \E r \in Req :
        /\ Arrived(r) /\ Verdict(r) = "ok" /\ Parses(r)
        /\ "res200" \in Range(trace[r])
        /\ VendorOps \cup ChatOps \subseteq Range(trace[r])

(***************************************************************************)
(* C2.  Every error raised in a step of the server_failed branch is caught *)
(* by handleWebhook and logged: none escapes as an unhandled rejection, a  *)
(* chain that ended in failure ended with the error log, no step is        *)
(* retried and the 200 stays the only response.                            *)
(* (Stated as claimed; the rejection of channel.send escapes.)             *)
(***************************************************************************)
C2_ErrorsCaughtAndLogged ==
    \A r \in Req :
        (Arrived(r) /\ HandledBranch(r)) =>
            /\ "unhandledRejection" \notin Range(trace[r])
            /\ (ChainDone(r) /\ ~Notified(r)) => Last(trace[r]) = "log.error"
            /\ NoRepeat(r)
            /\ Responses(r) = <<"res200">>

(***************************************************************************)
(* C3.  The response is decided by the synchronous steps before the        *)
(* acknowledgment, and stays what they decided: 400 when validateWebhook   *)
(* throws a WebhookVerificationError, 500 when it throws anything else or  *)
(* when the verified body does not parse, 200 otherwise.                   *)
(***************************************************************************)
C3_ResponseBySyncSteps ==
    \A r \in Req :
        Arrived(r) =>
            Responses(r) =
                IF Verdict(r) = "WebhookVerificationError" THEN <<"res400">>
                ELSE IF Verdict(r) # "ok" THEN <<"res500">>
                ELSE IF ~Parses(r) THEN <<"res500">>
                ELSE <<"res200">>

\* One request answered 400, another answered 500 for a validly signed body that
\* is not JSON (the SyntaxError of the JSON.parse in the verifier).
C3_Witness ==
    \E r1, r2 \in Req :
        /\ Arrived(r1) /\ Responses(r1) = <<"res400">>
        /\ Arrived(r2) /\ req[r2].authentic /\ req[r2].fresh /\ req[r2].body.raw
        /\ Verdict(r2) = "SyntaxError" /\ ~Parses(r2) /\ Responses(r2) = <<"res500">>

(***************************************************************************)
(* C4.  Verification comes before parsing, and a request that fails it is  *)
(* never parsed, never reaches handleWebhook and causes no vendor API call *)
(* and no chat operation.                                                  *)
(***************************************************************************)
C4_RejectedNeverProcessed ==
    \A r \in Req :
        Arrived(r) =>
            /\ trace[r][1] = "validate"
            /\ Verdict(r) # "ok" =>
                Range(trace[r]) \cap ({"parse", "handleWebhook", "res200"} \cup OutboundOps) = {}

\* A forged server_failed webhook was answered 400 and nothing else happened.
C4_Witness ==
    \E r \in Req :
        /\ Arrived(r) /\ req[r].present = HeaderNames /\ ~req[r].authentic
        /\ Parses(r) /\ req[r].body.payload = ServerFailed
        /\ trace[r] = <<"validate", "log.error", "res400">>

(***************************************************************************)
(* C5.  An accepted payload whose type is not "server_failed" causes no    *)
(* vendor API call and no chat operation: handleWebhook writes one log     *)
(* line and returns.                                                       *)
(***************************************************************************)
C5_OtherTypesDropped ==
    \A r \in Req :
        (/\ Arrived(r) /\ "res200" \in Range(trace[r])
         /\ (req[r].body.payload.json = "null" \/ req[r].body.payload.type # "server_failed")) =>
            /\ Range(trace[r]) \cap OutboundOps = {}
            /\ pc[r] = "returned" /\ DroppedWithLog(r)
            /\ Count(trace[r], "log.info") + Count(trace[r], "log.error") = 1

\* A deploy_ended webhook was acknowledged, logged and dropped.
C5_Witness ==
    \E r \in Req :
        /\ Arrived(r) /\ Parses(r)
        /\ req[r].body.payload = [json |-> "object", type |-> "deploy_ended", hasData |-> TRUE]
        /\ trace[r] = <<"validate", "parse", "res200", "handleWebhook", "log.info">>

(***************************************************************************)
(* C6.  When the service fetch or the event fetch of a server_failed       *)
(* webhook answers with a non-2xx status, the chain ends there: the error  *)
(* is logged, the chat service is never contacted, nothing is sent, and    *)
(* the response to the webhook is, and stays, the 200.                     *)
(***************************************************************************)
C6_FetchFailureDrops ==
    \A r \in Req :
        (Non2xx(svc[r]) \/ Non2xx(evt[r])) =>
            /\ pc[r] = "returned" /\ DroppedWithLog(r)
            /\ Last(trace[r]) = "log.error" /\ Count(trace[r], "log.error") = 1
            /\ Range(trace[r]) \cap ChatOps = {}
            /\ Non2xx(svc[r]) => "fetchEvent" \notin Range(trace[r])
            /\ Responses(r) = <<"res200">>

\* The event fetch answered 404 after the service fetch had succeeded.
C6_Witness ==
    \E r \in Req :
        /\ ok(svc[r]) /\ Non2xx(evt[r]) /\ evt[r].status = 404
        /\ pc[r] = "returned"

(***************************************************************************)
(* C7.  End to end.  What the two programs hand to the description differs:*)
(* the permissive one passes event.details, the strict one                 *)
(* event.details.reason.                                                   *)
(***************************************************************************)
\* The fetches succeeded and the channel resolved to a sendable channel.
AllSucceeded(r) == ok(svc[r]) /\ ok(evt[r]) /\ chan[r] = "sendable"

\* The fetched event has a details map.
HasDetails(r) == evt[r].body.details # Undef

\* The failure fields at the top level of the fetched event's details map.
DetailsMap(r) == evt[r].body.details.flat

OomOnly == Fields(Undef, Bool(TRUE), Undef, Undef, Undef)

\* One message was handed to channel.send, built from the service and from fields f.
OneMessageFrom(r, f) ==
    /\ Count(trace[r], "send") = 1
    /\ msg[r] # None
    /\ msg[r].title = svc[r].body.name \o " Failed"
    /\ msg[r].logs = svc[r].body.dashboardUrl \o "/logs"
    /\ msg[r].description = description(f)
    /\ f = OomOnly => msg[r].description = Str("Out of Memory")

\* C7: whenever both fetches succeed and the channel is sendable, exactly
\* one message is sent, its description derived from the failure fields of the
\* event's details map, its title "{service.name} Failed", its logs link
\* "{service.dashboardUrl}/logs".
C7_AsClaimed ==
    \A r \in Req :
        (AllSucceeded(r) /\ HasDetails(r)) => OneMessageFrom(r, DetailsMap(r))

(***************************************************************************)
(* C8.  The description by priority.                                       *)
(***************************************************************************)
Present(v) == v # Undef

\* The description the priority order gives when `set` says which fields count as set.
ByPriority(f, set(_)) ==
    IF set(f.nonZeroExit) THEN Str("Exited with status " \o JsToString(f.nonZeroExit))
    ELSE IF set(f.oomKilled) THEN Str("Out of Memory")
    ELSE IF set(f.timedOutSeconds) THEN Str("Timed out " \o JsToString(f.timedOutReason))
    ELSE IF set(f.unhealthy) THEN f.unhealthy
    ELSE Str("Failed for unknown reason")

\* C8 as claimed: for every combination of the four fields being present or not,
\* the description is that of the first present field in the order nonZeroExit,
\* oomKilled, timedOutSeconds, unhealthy, and the fallback when none is present.
C8_AsClaimed ==
    (dOut # None /\ dIn # Undef) => dOut = ByPriority(dIn, Present)

\* C8 as amended: for every combination of the four fields, the description is that
\* of the first field holding a truthy value (not undefined, false, 0 or "") in the
\* order nonZeroExit -> "Exited with status N", oomKilled -> "Out of Memory",
\* timedOutSeconds -> "Timed out {timedOutReason}", unhealthy -> its value, and
\* "Failed for unknown reason" when none is truthy.
C8_DescriptionPriority ==
    (dOut # None /\ dIn # Undef) =>
        /\ dOut = ByPriority(dIn, Truthy)
        /\ (\A n \in {"nonZeroExit", "oomKilled", "timedOutSeconds", "unhealthy"} :
                ~Truthy(dIn[n])) => dOut = Str("Failed for unknown reason")
        /\ Truthy(dIn.nonZeroExit) => dOut.s = "Exited with status " \o JsToString(dIn.nonZeroExit)

\* Several fields set at once: nonZeroExit wins over oomKilled and unhealthy.
C8_Witness ==
    /\ dIn # Undef
    /\ dIn.nonZeroExit = Num(137) /\ dIn.oomKilled = Bool(TRUE)
    /\ dIn.unhealthy = Str("probe failed")
    /\ dOut = Str("Exited with status 137")

(***************************************************************************)
(* C9.  When the channel cannot be resolved (null, or the fetch rejects)   *)
(* or is not sendable, nothing is sent: the error is caught by             *)
(* handleWebhook and logged, and the channel is not resolved again.        *)
(***************************************************************************)
C9_ChannelFailureDrops ==
    \A r \in Req :
        chan[r] \in {"null", "rejected", "notSendable"} =>
            /\ "send" \notin Range(trace[r])
            /\ pc[r] = "returned" /\ DroppedWithLog(r)
            /\ Last(trace[r]) = "log.error" /\ Count(trace[r], "log.error") = 1
            /\ Count(trace[r], "channelFetch") = 1

\* The channel resolved to one that is not sendable, after both fetches succeeded.
C9_Witness ==
    \E r \in Req :
        /\ ok(svc[r]) /\ ok(evt[r]) /\ chan[r] = "notSendable"
        /\ pc[r] = "returned"

(***************************************************************************)
(* C10.  Every chain that has come to its end is in exactly one of the two *)
(* terminal states, "notified" or "dropped-with-log", and took no step     *)
(* twice.                                                                  *)
(* (Stated as claimed; a failed delivery ends in neither.)                 *)
(***************************************************************************)
C10_TerminalStates ==
    \A r \in Req :
        ChainDone(r) =>
            /\ Notified(r) \/ DroppedWithLog(r)
            /\ ~(Notified(r) /\ DroppedWithLog(r))
            /\ NoRepeat(r)

(***************************************************************************)
(* C11.  No retry: for one accepted webhook the service endpoint is        *)
(* requested at most once, the event endpoint at most once, the channel is *)
(* resolved at most once and channel.send is called at most once,          *)
(* whatever each call came to.                                             *)
(***************************************************************************)
C11_NoRetry ==
    \A r \in Req :
        /\ \A e \in OutboundOps : Count(trace[r], e) <= 1
        /\ (svc[r] # None /\ ~ok(svc[r])) =>
                pc[r] = "returned" /\ Count(trace[r], "fetchService") = 1
        /\ (evt[r] # None /\ ~ok(evt[r])) =>
                pc[r] = "returned" /\ Count(trace[r], "fetchEvent") = 1
        /\ sendSt[r] = "failed" => Count(trace[r], "send") = 1

\* A chain whose send failed made each of the four calls exactly once; another
\* chain ended at a failed service fetch.
C11_Witness ==
    \E r1, r2 \in Req :
        /\ sendSt[r1] = "failed"
        /\ \A e \in OutboundOps : Count(trace[r1], e) = 1
        /\ svc[r2] = Rejected /\ pc[r2] = "returned"

(***************************************************************************)
(* C12.  Chains of different webhooks are independent under every          *)
(* interleaving: the message of a chain is built from the responses to its *)
(* own calls only, is sent at most once, and nothing that happens in       *)
(* another chain stops a chain that is still under way.                    *)
(* (Stated as claimed; the unhandled rejection of one chain's send ends    *)
(* the process under the other chain.)                                     *)
(***************************************************************************)
\* The chain of r still has a call or a promise outstanding.
InFlight(r) ==
    pc[r] \in {"awaitService", "awaitEvent", "awaitChannel"} \/ sendSt[r] = "pending"

C12_ChainsIndependent ==
    \A r \in Req :
        /\ InFlight(r) => proc \in Running
        /\ Count(trace[r], "send") <= 1
        /\ msg[r] # None =>
            /\ msg[r].title = svc[r].body.name \o " Failed"
            /\ msg[r].logs = svc[r].body.dashboardUrl \o "/logs"
            /\ msg[r].description = description(failureArg(variant, evt[r].body))

(***************************************************************************)
(* C13.  No deduplication.                                                 *)
(***************************************************************************)
\* r1 and r2 carry the same bytes: the same headers and the same body.
SameWebhook(r1, r2) ==
    /\ req[r1].present = req[r2].present
    /\ req[r1].authentic = req[r2].authentic
    /\ req[r1].body = req[r2].body

\* r was acknowledged and handled on its own: handleWebhook ran for it, and for a
\* server_failed payload it issued its own service fetch, its own event fetch once
\* that succeeded, and its own send once the channel was resolved.
OwnAttempt(r) ==
    /\ Responses(r) = <<"res200">>
    /\ Count(trace[r], "handleWebhook") = 1
    /\ req[r].body.payload = ServerFailed =>
        /\ Count(trace[r], "fetchService") = 1
        /\ ok(svc[r]) => Count(trace[r], "fetchEvent") = 1
        /\ (AllSucceeded(r) /\ description(failureArg(variant, evt[r].body)) # Throw) =>
                Count(trace[r], "send") = 1 /\ msg[r] # None

\* C13 as claimed: a webhook that was acknowledged with 200 and is delivered again
\* with the same body and the same headers is acknowledged with 200 again and
\* handled again on its own; the second delivery is never suppressed.
C13_AsClaimed ==
    \A r1, r2 \in Req :
        (r1 < r2 /\ Arrived(r1) /\ Arrived(r2) /\ SameWebhook(r1, r2)
                 /\ Responses(r1) = <<"res200">>) => OwnAttempt(r2)

\* C13 as amended: a webhook that was acknowledged with 200 and is delivered again
\* with the same body and the same headers, while its timestamp is still within
\* the verifier's tolerance, is acknowledged with 200 again and handled again on
\* its own (its own service fetch, event fetch and send); the program keeps no
\* record of the first delivery and never suppresses the second because of it.
C13_NoDedup ==
    \A r1, r2 \in Req :
        (r1 < r2 /\ Arrived(r1) /\ Arrived(r2) /\ SameWebhook(r1, r2)
                 /\ Responses(r1) = <<"res200">> /\ req[r2].fresh) => OwnAttempt(r2)

\* The same server_failed webhook was delivered twice and sent twice.
C13_Witness ==
    \E r1, r2 \in Req :
        /\ r1 < r2 /\ Arrived(r1) /\ Arrived(r2) /\ req[r1] = req[r2]
        /\ Parses(r1) /\ req[r1].body.payload = ServerFailed
        /\ Responses(r1) = <<"res200">> /\ Responses(r2) = <<"res200">>
        /\ Count(trace[r1], "send") = 1 /\ Count(trace[r2], "send") = 1

(***************************************************************************)
(* C14.  Missing headers.                                                  *)
(***************************************************************************)
MissingHeader(r) == req[r].present # HeaderNames

NeverProcessed(r) ==
    /\ "parse" \notin Range(trace[r])
    /\ "handleWebhook" \notin Range(trace[r])
    /\ \A o \in OutboundOps : o \notin Range(trace[r])

C16_ConfigPolicy ==
    proc # "boot" =>
        /\ (variant = "strict" /\ env # EnvNames) =>
                proc = "exited" /\ \A r \in Req : ~Arrived(r) /\ trace[r] = <<>>
        /\ (variant = "strict" /\ env = EnvNames) => proc # "exited"
        /\ variant = "permissive" =>
                /\ proc # "exited"
                /\ "RENDER_WEBHOOK_SECRET" \notin env => renderWebhookSecret(env) = ""
        /\ (\E r \in Req : Arrived(r)) => (variant = "permissive" \/ env = EnvNames)

\* The strict variant, started with only the channel id missing, has exited.
C16_Witness ==
    /\ variant = "strict"
    /\ env = EnvNames \ {"DISCORD_CHANNEL_ID"}
    /\ proc = "exited"

(***************************************************************************)
(* C17.  The steps of one chain are sequential and gated on success.       *)
(***************************************************************************)
\* Where e stands in s.
Pos(s, e) == CHOOSE i \in 1..Len(s) : s[i] = e

Issued(r, e) == e \in Range(trace[r])

\* A fetch has settled and did not return 2xx (a non-2xx status or a rejection).
Failed(o) == o # None /\ ~ok(o)

\* C17: the event fetch is issued only after the service fetch has returned 2xx,
\* and the channel is resolved only after both fetches have returned 2xx, in this
\* order; while a fetch is pending the next step has not been taken; when the
\* service fetch fails the event fetch is never issued, and when either fetch
\* fails the chat service is never contacted.
C17_SequentialGated ==
    \A r \in Req :
        /\ Issued(r, "fetchEvent") =>
              /\ ok(svc[r])
              /\ Issued(r, "fetchService")
              /\ Pos(trace[r], "fetchService") < Pos(trace[r], "fetchEvent")
        /\ Issued(r, "channelFetch") =>
              /\ ok(svc[r]) /\ ok(evt[r])
              /\ Issued(r, "fetchEvent")
              /\ Pos(trace[r], "fetchEvent") < Pos(trace[r], "channelFetch")
        /\ Issued(r, "send") =>
              /\ Issued(r, "channelFetch")
              /\ Pos(trace[r], "channelFetch") < Pos(trace[r], "send")
        /\ pc[r] = "awaitService" => ~Issued(r, "fetchEvent") /\ Range(trace[r]) \cap ChatOps = {}
        /\ pc[r] = "awaitEvent" => Range(trace[r]) \cap ChatOps = {}
        /\ Failed(svc[r]) => ~Issued(r, "fetchEvent") /\ evt[r] = None
        /\ (Failed(svc[r]) \/ Failed(evt[r])) =>
              Range(trace[r]) \cap ChatOps = {} /\ chan[r] = "none"

\* One chain went through both fetches to the channel, and in another the event
\* fetch failed after the service fetch had succeeded.
C17_Witness ==
    \E r1, r2 \in Req :
        /\ ok(svc[r1]) /\ ok(evt[r1]) /\ Issued(r1, "channelFetch")
        /\ ok(svc[r2]) /\ Failed(evt[r2]) /\ pc[r2] = "returned"

(***************************************************************************)
(* C18.  One response per request.                                         *)
(***************************************************************************)
\* C18: every request the route handler has run for has exactly one response: a
\* 200, a 400 or a 500, never two; and no step of the chain that follows a 200
\* adds a response or changes the one that was sent.
C18_ExactlyOneResponse ==
    \A r \in Req :
        /\ Arrived(r) => Len(Responses(r)) = 1
        /\ ~Arrived(r) => Responses(r) = <<>>
        /\ HandledBranch(r) => Responses(r) = <<"res200">>

\* Two chains ran to their end after the 200, one to a failed send and one to a
\* failed fetch, and each request still has the one 200.
C18_Witness ==
    \E r1, r2 \in Req :
        /\ sendSt[r1] = "failed" /\ Responses(r1) = <<"res200">>
        /\ Failed(svc[r2]) /\ pc[r2] = "returned" /\ Responses(r2) = <<"res200">>

====
